---- MODULE Spec2Model ----
(***************************************************************************)
(* The de-identification pipeline of src/app.py: deidentify_data, driven   *)
(* by the /process route (process_file).                                   *)
(*                                                                         *)
(* Text is a sequence of one-character strings.  The csv reader and writer *)
(* of the standard library are modelled by their state machines under the  *)
(* default ("excel") dialect the code uses.  The Presidio analyzer and     *)
(* anonymizer are the environment: the analyzer returns any list of        *)
(* entities over the cell (or raises), the anonymizer replaces the spans   *)
(* it is given by new_value (or raises).                                   *)
(***************************************************************************)
EXTENDS Integers, Sequences, FiniteSets, TLC

VARIABLES pc, input, resubmitted, rest, rows, deidentified_lines, row,
          deidentified_row, i, total_pii_found, response, scanned, failure

vars == <<pc, input, resubmitted, rest, rows, deidentified_lines, row,
          deidentified_row, i, total_pii_found, response, scanned, failure>>

----------------------------------------------------------------------------
(* Bounds of the model *)

\* longest request body, in characters
MaxLen == 4
\* most entities the analyzer returns for one cell
MaxEntities == 2
\* longest output that is submitted again as a request body
MaxResubmitLen == 10

----------------------------------------------------------------------------
(* Characters *)

delimiter == ","
quotechar == "\""
CR == "\r"
LF == "\n"
SP == " "
\* end-of-line marker the reader feeds its state machine after each line
EOL == "EOL"

\* the characters request bodies are drawn from
Alphabet == {"a", SP, delimiter, quotechar, LF, CR}

\* characters str.strip() removes (those of them that occur here)
Whitespace == {SP, LF, CR}

----------------------------------------------------------------------------
(* csv.reader: one call of next(reader) on the unread text *)

SaveField(st) == [st EXCEPT !.fields = Append(st.fields, st.field), !.field = <<>>]

AddChar(st, c) == [st EXCEPT !.field = Append(st.field, c)]

IsNewline(c) == c = LF \/ c = CR

AfterNewline(c) == IF c = EOL THEN "START_RECORD" ELSE "EAT_CRLF"

StartField(st, c) ==
  IF IsNewline(c) \/ c = EOL
    THEN [SaveField(st) EXCEPT !.state = AfterNewline(c)]
  ELSE IF c = quotechar
    THEN [st EXCEPT !.state = "IN_QUOTED_FIELD"]
  ELSE IF c = delimiter
    THEN [SaveField(st) EXCEPT !.state = "START_FIELD"]
  ELSE [AddChar(st, c) EXCEPT !.state = "IN_FIELD"]

ProcessChar(st, c) ==
  CASE st.state = "START_RECORD" ->
         IF c = EOL THEN st
         ELSE IF IsNewline(c) THEN [st EXCEPT !.state = "EAT_CRLF"]
         ELSE StartField(st, c)
    [] st.state = "START_FIELD" -> StartField(st, c)
    [] st.state = "IN_FIELD" ->
         IF IsNewline(c) \/ c = EOL
           THEN [SaveField(st) EXCEPT !.state = AfterNewline(c)]
         ELSE IF c = delimiter
           THEN [SaveField(st) EXCEPT !.state = "START_FIELD"]
         ELSE AddChar(st, c)
    [] st.state = "IN_QUOTED_FIELD" ->
         IF c = EOL THEN st
         ELSE IF c = quotechar THEN [st EXCEPT !.state = "QUOTE_IN_QUOTED_FIELD"]
         ELSE AddChar(st, c)
    [] st.state = "QUOTE_IN_QUOTED_FIELD" ->
         IF c = quotechar
           THEN [AddChar(st, c) EXCEPT !.state = "IN_QUOTED_FIELD"]
         ELSE IF c = delimiter
           THEN [SaveField(st) EXCEPT !.state = "START_FIELD"]
         ELSE IF IsNewline(c) \/ c = EOL
           THEN [SaveField(st) EXCEPT !.state = AfterNewline(c)]
         ELSE [AddChar(st, c) EXCEPT !.state = "IN_FIELD"]
    [] st.state = "EAT_CRLF" ->
         IF IsNewline(c) THEN st
         ELSE IF c = EOL THEN [st EXCEPT !.state = "START_RECORD"]
         ELSE [st EXCEPT !.state = "ERROR"]

\* text[p-1:] of a sequence indexed from 1
Drop(text, p) == SubSeq(text, p, Len(text))

RECURSIVE ReadFrom(_, _, _)
ReadFrom(st, text, p) ==
  IF p > Len(text)
    THEN \* the line iterator is exhausted inside a quoted field
         [kind |-> "row", fields |-> SaveField(st).fields, rest |-> <<>>]
  ELSE LET st1 == ProcessChar(st, text[p])
           eol == text[p] = LF \/ p = Len(text)
           st2 == IF eol /\ st1.state # "ERROR" THEN ProcessChar(st1, EOL) ELSE st1
       IN  IF st1.state = "ERROR"
             THEN [kind |-> "error", fields |-> <<>>, rest |-> <<>>]
           ELSE IF eol /\ st2.state = "START_RECORD"
             THEN [kind |-> "row", fields |-> st2.fields, rest |-> Drop(text, p + 1)]
           ELSE ReadFrom(st2, text, p + 1)

ReadRow(text) ==
  IF text = <<>>
    THEN [kind |-> "stop", fields |-> <<>>, rest |-> <<>>]
  ELSE ReadFrom([state |-> "START_RECORD", fields |-> <<>>, field |-> <<>>], text, 1)

----------------------------------------------------------------------------
(* csv.writer: writerows *)

NeedsQuote(c) == c = delimiter \/ c = quotechar \/ c = CR \/ c = LF

\* mutant: an embedded quote character is not doubled
EscapeFieldNoDoubling(field) == field

RECURSIVE EscapeField(_)
EscapeField(field) ==
  IF field = <<>> THEN <<>>
  ELSE (IF Head(field) = quotechar THEN <<quotechar, quotechar>> ELSE <<Head(field)>>)
       \o EscapeField(Drop(field, 2))

WriteField(field) ==
  IF \E k \in 1..Len(field) : NeedsQuote(field[k])
    THEN <<quotechar>> \o EscapeField(field) \o <<quotechar>>
  ELSE field

RECURSIVE JoinFields(_)
JoinFields(fields) ==
  IF fields = <<>> THEN <<>>
  ELSE IF Len(fields) = 1 THEN WriteField(fields[1])
  ELSE WriteField(fields[1]) \o <<delimiter>> \o JoinFields(Drop(fields, 2))

WriteRow(fields) ==
  LET rec == JoinFields(fields)
  IN  (IF Len(fields) > 0 /\ rec = <<>> THEN <<quotechar, quotechar>> ELSE rec)
      \o <<CR, LF>>

RECURSIVE WriteRows(_)
WriteRows(lines) ==
  IF lines = <<>> THEN <<>>
  ELSE WriteRow(lines[1]) \o WriteRows(Drop(lines, 2))

----------------------------------------------------------------------------
(* cell.strip() == "" *)

\* mutant: cell == "", without strip()
IsBlankNoStrip(cell) == cell = <<>>

IsBlank(cell) == \A k \in 1..Len(cell) : cell[k] \in Whitespace

----------------------------------------------------------------------------
(* Presidio, as the code uses it *)

\* the entity_type labels the analyzer reports here
EntityTypes == {<<"E","M","A","I","L","_","A","D","D","R","E","S","S">>,
                <<"U","S","_","S","S","N">>}

\* OperatorConfig("replace", {"new_value": "XXXXXX"})
new_value == <<"X","X","X","X","X","X">>

\* One RecognizerResult: a label and the non-empty span text[start:end].
Entities(cell) ==
  {e \in [entity_type : EntityTypes, start : 0..(Len(cell) - 1), end : 1..Len(cell)] :
     e.start < e.end}

\* What analyzer.analyze(text=cell, language='en') may return: up to
\* MaxEntities results, listed left to right without overlap.
AnalyzerResults(cell) ==
  {results \in UNION {[1..n -> Entities(cell)] : n \in 0..MaxEntities} :
     \A k \in 1..(Len(results) - 1) : results[k].end <= results[k + 1].start}

\* anonymizer.anonymize(text, analyzer_results, operators).text with the
\* DEFAULT replace operator: every span becomes new_value.
RECURSIVE ReplaceFrom(_, _, _)
ReplaceFrom(text, results, k) ==
  IF k = 0 THEN text
  ELSE ReplaceFrom(SubSeq(text, 1, results[k].start) \o new_value
                     \o Drop(text, results[k].end + 1),
                   results, k - 1)

Anonymize(text, results) == ReplaceFrom(text, results, Len(results))

----------------------------------------------------------------------------
(* The summary report *)

UpperCase == <<"A","B","C","D","E","F","G","H","I","J","K","L","M",
               "N","O","P","Q","R","S","T","U","V","W","X","Y","Z">>
LowerCase == <<"a","b","c","d","e","f","g","h","i","j","k","l","m",
               "n","o","p","q","r","s","t","u","v","w","x","y","z">>

IsCased(c) == \E k \in 1..26 : c = UpperCase[k] \/ c = LowerCase[k]
LetterIndex(c) == CHOOSE k \in 1..26 : c = UpperCase[k] \/ c = LowerCase[k]
Upper(c) == IF IsCased(c) THEN UpperCase[LetterIndex(c)] ELSE c
Lower(c) == IF IsCased(c) THEN LowerCase[LetterIndex(c)] ELSE c

\* key.replace('_', ' ')
ReplaceUnderscore(key) == [k \in 1..Len(key) |-> IF key[k] = "_" THEN SP ELSE key[k]]

\* mutant: str.capitalize(), which capitalizes the first word only
Capitalize(s) == [k \in 1..Len(s) |-> IF k > 1 THEN Lower(s[k]) ELSE Upper(s[k])]

\* str.title(): a cased character is upper-cased unless the one before it
\* is cased, and lower-cased otherwise
Title(s) ==
  [k \in 1..Len(s) |->
     IF k > 1 /\ IsCased(s[k - 1]) THEN Lower(s[k]) ELSE Upper(s[k])]

\* {count} in an f-string: the decimal digits of a count
DigitChars == <<"0","1","2","3","4","5","6","7","8","9">>

RECURSIVE Decimal(_)
Decimal(n) ==
  IF n < 10 THEN <<DigitChars[n + 1]>>
  ELSE Decimal(n \div 10) \o <<DigitChars[(n % 10) + 1]>>

\* f"Total {key.replace('_', ' ').title()} found: {count}\n"
\* A report is the sequence of its lines, each without its "\n".
ReportLine(key, count) ==
  <<"T","o","t","a","l"," ">> \o Title(ReplaceUnderscore(key)) \o <<" ","f","o","u","n","d",":"," ">> \o Decimal(count)

HeaderLines ==
  << <<"S","u","m","m","a","r","y"," ","R","e","p","o","r","t">>,
     <<"-","-","-","-","-","-","-","-","-","-","-","-","-","-">> >>
NoPIILine ==
  <<"N","o"," ","P","I","I"," ","f","o","u","n","d"," ","i","n"," ","t","h","e"," ","p","r","o","v","i","d","e","d"," ","d","a","t","a",".">>

\* mutant: the per-type lines are written only for more than one type
BuildReportOffByOne(total) ==
  HeaderLines \o
    (IF Len(total) > 1
       THEN [k \in 1..Len(total) |-> ReportLine(total[k][1], total[k][2])]
       ELSE <<NoPIILine>>)

\* total_pii_found is a dict: a sequence of <<key, count>> in insertion order
BuildReport(total) ==
  HeaderLines \o
    (IF total # <<>>
       THEN [k \in 1..Len(total) |-> ReportLine(total[k][1], total[k][2])]
       ELSE <<NoPIILine>>)

HasKey(total, key) == \E k \in 1..Len(total) : total[k][1] = key

\* mutant: a type is counted once, however often it occurs
IncrementOncePerType(total, key) ==
  IF \E k \in 1..Len(total) : total[k][1] = key THEN total
  ELSE Append(total, <<key, 1>>)

\* total_pii_found[key] = total_pii_found.get(key, 0) + 1
Increment(total, key) ==
  IF HasKey(total, key)
    THEN [k \in 1..Len(total) |->
            IF total[k][1] = key THEN <<key, total[k][2] + 1>> ELSE total[k]]
  ELSE Append(total, <<key, 1>>)

\* for entity in results: the count of entity.entity_type goes up by one
RECURSIVE CountAll(_, _, _)
CountAll(total, results, k) ==
  IF k > Len(results) THEN total
  ELSE CountAll(Increment(total, results[k].entity_type), results, k + 1)

UpdateCounts(total, results) == CountAll(total, results, 1)

----------------------------------------------------------------------------
(* The state machine *)

\* request bodies: every text of at most MaxLen characters
Inputs == UNION {[1..n -> Alphabet] : n \in 0..MaxLen}

NoResponse == [status |-> "none"]
NoFailure == [stage |-> "none"]

\* jsonify({"error": ...}), 500
ErrorResponse(e) == [status |-> "500", error |-> e]

\* jsonify({"deidentified_csv": ..., "report": ...})
OkResponse(csv, report) == [status |-> "200", deidentified_csv |-> csv, report |-> report]

Init ==
  /\ pc = "idle"
  /\ input = <<>>
  /\ resubmitted = FALSE
  /\ rest = <<>>
  /\ rows = <<>>
  /\ deidentified_lines = <<>>
  /\ row = <<>>
  /\ deidentified_row = <<>>
  /\ i = 1
  /\ total_pii_found = <<>>
  /\ response = NoResponse
  /\ scanned = <<>>
  /\ failure = NoFailure

\* process_file calls deidentify_data(csv_content); the call runs up to the
\* loop over the reader: fresh locals, header = next(reader).
\* r is what next(reader) gives for the header, counts the new count map
StartCall(text, again, r, counts) ==
  /\ input' = text
  /\ resubmitted' = again
  /\ total_pii_found' = counts
  /\ scanned' = <<>>
  /\ row' = <<>>
  /\ deidentified_row' = <<>>
  /\ i' = 1
  /\ IF r.kind = "row"
       THEN /\ pc' = "rows"
            /\ rest' = r.rest
            /\ rows' = <<r.fields>>
            /\ deidentified_lines' = <<r.fields>>
            /\ response' = NoResponse
            /\ failure' = NoFailure
       ELSE /\ pc' = "failed"
            /\ rest' = <<>>
            /\ rows' = <<>>
            /\ deidentified_lines' = <<>>
            /\ response' = ErrorResponse(IF r.kind = "stop" THEN "StopIteration"
                                                            ELSE "csv.Error")
            /\ failure' = [stage |-> "header"]

\* mutant: the first row is left to the loop over the reader and is scanned
\* like a data row
ProcessFileScansHeader(text, again) ==
  /\ input' = text
  /\ resubmitted' = again
  /\ total_pii_found' = <<>>
  /\ scanned' = <<>>
  /\ row' = <<>>
  /\ deidentified_row' = <<>>
  /\ i' = 1
  /\ pc' = "rows"
  /\ rest' = text
  /\ rows' = <<>>
  /\ deidentified_lines' = <<>>
  /\ response' = NoResponse
  /\ failure' = NoFailure

\* mutant: header = next(reader, []), so that the empty text has a header
ProcessFileDefaultHeader(text, again) ==
  StartCall(text, again,
            IF ReadRow(text).kind = "stop"
              THEN [kind |-> "row", fields |-> <<>>, rest |-> <<>>]
              ELSE ReadRow(text),
            <<>>)

\* mutant: the count map is a module-level dict that outlives the call
ProcessFileKeepsCounts(text, again) ==
  StartCall(text, again, ReadRow(text), total_pii_found)

ProcessFile(text, again) == StartCall(text, again, ReadRow(text), <<>>)

\* a new upload
Request ==
  /\ pc = "idle"
  /\ \E text \in Inputs : ProcessFile(text, FALSE)

\* the de-identified CSV of the last response is uploaded again
Resubmit ==
  /\ pc = "done"
  /\ Len(response.deidentified_csv) <= MaxResubmitLen
  /\ ProcessFile(response.deidentified_csv, TRUE)

\* for row in reader: the reader yields the next row
NextRow ==
  LET r == ReadRow(rest)
  IN  /\ pc = "rows"
      /\ r.kind = "row"
      /\ pc' = "cells"
      /\ rest' = r.rest
      /\ rows' = Append(rows, r.fields)
      /\ row' = r.fields
      /\ deidentified_row' = r.fields
      /\ i' = 1
      /\ UNCHANGED <<input, resubmitted, deidentified_lines, total_pii_found,
                     response, scanned, failure>>

\* for row in reader: the reader raises csv.Error, which process_file catches
ReaderError ==
  /\ pc = "rows"
  /\ ReadRow(rest).kind = "error"
  /\ pc' = "failed"
  /\ response' = ErrorResponse("csv.Error")
  /\ failure' = [stage |-> "reader"]
  /\ UNCHANGED <<input, resubmitted, rest, rows, deidentified_lines, row,
                 deidentified_row, i, total_pii_found, scanned>>

\* if cell.strip() == "": continue
SkipBlank ==
  /\ pc = "cells"
  /\ i <= Len(row)
  /\ IsBlank(row[i])
  /\ i' = i + 1
  /\ UNCHANGED <<pc, input, resubmitted, rest, rows, deidentified_lines, row,
                 deidentified_row, total_pii_found, response, scanned, failure>>

\* the cell's place in the grid and what the analyzer returned for it
Scan(cell, results) ==
  [row |-> Len(deidentified_lines) + 1, col |-> i, text |-> cell,
   found |-> Len(results),
   anonymized |-> IF results # <<>> THEN Anonymize(cell, results) ELSE <<"not called">>]

\* the body of the cell loop for a non-blank cell, both calls returning
ScanCell ==
  /\ pc = "cells"
  /\ i <= Len(row)
  /\ ~IsBlank(row[i])
  /\ \E results \in AnalyzerResults(row[i]) :
       /\ deidentified_row' =
            IF results # <<>>
              THEN [deidentified_row EXCEPT ![i] = Anonymize(row[i], results)]
              ELSE deidentified_row
       /\ total_pii_found' = UpdateCounts(total_pii_found, results)
       /\ scanned' = Append(scanned, Scan(row[i], results))
  /\ i' = i + 1
  /\ UNCHANGED <<pc, input, resubmitted, rest, rows, deidentified_lines, row,
                 response, failure>>

Failed(stage) ==
  [stage |-> stage, row |-> Len(deidentified_lines) + 1, col |-> i]

\* mutant: the analyzer's exception is caught in the loop and the cell is
\* left as it is
AnalyzerFailsSkipsCell ==
  /\ pc = "cells"
  /\ i <= Len(row)
  /\ ~IsBlank(row[i])
  /\ failure' = Failed("analyze")
  /\ i' = i + 1
  /\ UNCHANGED <<pc, input, resubmitted, rest, rows, deidentified_lines, row,
                 deidentified_row, total_pii_found, response, scanned>>

\* analyzer.analyze raises
AnalyzerFails ==
  /\ pc = "cells"
  /\ i <= Len(row)
  /\ ~IsBlank(row[i])
  /\ pc' = "failed"
  /\ response' = ErrorResponse("analyzer")
  /\ failure' = Failed("analyze")
  /\ UNCHANGED <<input, resubmitted, rest, rows, deidentified_lines, row,
                 deidentified_row, i, total_pii_found, scanned>>

\* analyzer.analyze returns entities and anonymizer.anonymize raises
AnonymizerFails ==
  /\ pc = "cells"
  /\ i <= Len(row)
  /\ ~IsBlank(row[i])
  /\ pc' = "failed"
  /\ response' = ErrorResponse("anonymizer")
  /\ failure' = Failed("anonymize")
  /\ UNCHANGED <<input, resubmitted, rest, rows, deidentified_lines, row,
                 deidentified_row, i, total_pii_found, scanned>>

\* mutant: a row without cells is not appended
EndRowSkipsEmpty ==
  /\ pc = "cells"
  /\ i > Len(row)
  /\ deidentified_lines' =
       IF deidentified_row = <<>> THEN deidentified_lines
       ELSE Append(deidentified_lines, deidentified_row)
  /\ pc' = "rows"
  /\ UNCHANGED <<input, resubmitted, rest, rows, row, deidentified_row, i,
                 total_pii_found, response, scanned, failure>>

\* deidentified_lines.append(deidentified_row)
EndRow ==
  /\ pc = "cells"
  /\ i > Len(row)
  /\ deidentified_lines' = Append(deidentified_lines, deidentified_row)
  /\ pc' = "rows"
  /\ UNCHANGED <<input, resubmitted, rest, rows, row, deidentified_row, i,
                 total_pii_found, response, scanned, failure>>

\* the reader is exhausted: report, writerows, return, jsonify
Finish ==
  /\ pc = "rows"
  /\ ReadRow(rest).kind = "stop"
  /\ pc' = "done"
  /\ response' = OkResponse(WriteRows(deidentified_lines), BuildReport(total_pii_found))
  /\ UNCHANGED <<input, resubmitted, rest, rows, deidentified_lines, row,
                 deidentified_row, i, total_pii_found, scanned, failure>>

\* the response has been sent; the route waits for the next upload, and
\* nothing of the finished call is kept
Deliver ==
  /\ pc \in {"done", "failed"}
  /\ pc' = "idle"
  /\ input' = <<>>
  /\ resubmitted' = FALSE
  /\ rest' = <<>>
  /\ rows' = <<>>
  /\ deidentified_lines' = <<>>
  /\ row' = <<>>
  /\ deidentified_row' = <<>>
  /\ i' = 1
  /\ total_pii_found' = <<>>
  /\ response' = NoResponse
  /\ scanned' = <<>>
  /\ failure' = NoFailure

Next ==
  \/ Request
  \/ Resubmit
  \/ NextRow
  \/ ReaderError
  \/ SkipBlank
  \/ ScanCell
  \/ AnalyzerFails
  \/ AnonymizerFails
  \/ EndRow
  \/ Finish
  \/ Deliver

Spec == Init /\ [][Next]_vars

----------------------------------------------------------------------------
(* Vocabulary of the properties *)

\* the grid a text parses to: every row the reader yields before it stops
RECURSIVE GridFrom(_, _)
GridFrom(text, acc) ==
  LET r == ReadRow(text)
  IN  IF r.kind = "row" THEN GridFrom(r.rest, Append(acc, r.fields)) ELSE acc

Grid(text) == GridFrom(text, <<>>)

\* a text that is empty or has only whitespace characters in it
OnlyWhitespace(cell) == \A k \in 1..Len(cell) : cell[k] \in {" ", "\n", "\r"}

SameShape(g, h) ==
  /\ Len(g) = Len(h)
  /\ \A r \in 1..Len(g) : Len(g[r]) = Len(h[r])

\* the sum of all counts of a count map
RECURSIVE TotalCount(_)
TotalCount(total) ==
  IF total = <<>> THEN 0 ELSE total[1][2] + TotalCount(Drop(total, 2))

\* the number of entities the analyzer returned over a list of scans
RECURSIVE TotalFound(_)
TotalFound(scans) ==
  IF scans = <<>> THEN 0 ELSE scans[1].found + TotalFound(Drop(scans, 2))

Keys(total) == {total[k][1] : k \in 1..Len(total)}

CountOf(total, key) ==
  IF HasKey(total, key)
    THEN total[CHOOSE k \in 1..Len(total) : total[k][1] = key][2]
  ELSE 0

\* the places <<row, column>> of the non-blank data cells of a grid, row by
\* row and left to right
RECURSIVE PlacesFrom(_, _, _)
PlacesFrom(g, r, c) ==
  IF r > Len(g) THEN <<>>
  ELSE IF c > Len(g[r]) THEN PlacesFrom(g, r + 1, 1)
  ELSE (IF OnlyWhitespace(g[r][c]) THEN <<>> ELSE << <<r, c>> >>)
       \o PlacesFrom(g, r, c + 1)

NonBlankPlaces(g) == PlacesFrom(g, 2, 1)

ScannedPlaces == [k \in 1..Len(scanned) |-> <<scanned[k].row, scanned[k].col>>]

IsPrefix(s, t) == Len(s) <= Len(t) /\ s = SubSeq(t, 1, Len(s))

\* the output cell of a scan: in the row under construction or in a row
\* already appended
OutCell(s) ==
  IF s.row <= Len(deidentified_lines)
    THEN deidentified_lines[s.row][s.col]
  ELSE deidentified_row[s.col]

Responded == pc = "done" /\ response.status = "200"

----------------------------------------------------------------------------
(* C1 *)

\* C1: Shape preservation.  When deidentify_data completes, the output grid
\* has as many rows as the grid the input parses to and, row by row, as
\* many cells; the same holds of the grid the returned CSV text parses to.
ShapePreservation ==
  Responded =>
    /\ Len(Grid(input)) >= 1
    /\ SameShape(Grid(input), deidentified_lines)
    /\ SameShape(Grid(input), Grid(response.deidentified_csv))

\* a completed run over rows of differing lengths, one of them without
\* cells, in which a cell was masked
ShapePreservationWitness ==
  /\ Responded
  /\ \E r \in 1..Len(rows) : Len(rows[r]) = 0
  /\ \E r \in 1..Len(rows) : Len(rows[r]) >= 2
  /\ \E k \in 1..Len(scanned) : scanned[k].found > 0

----------------------------------------------------------------------------
(* C2 *)

\* C2: Header passthrough.  No scan is ever of a cell of the first row, the
\* count map is still empty when the header has been copied, and when the
\* run completes the first output row is the first input row cell for
\* cell, in the output grid and in the grid the returned text parses to.
HeaderPassthrough ==
  /\ \A k \in 1..Len(scanned) : scanned[k].row >= 2
  /\ (pc = "rows" /\ Len(rows) = 1) => total_pii_found = <<>>
  /\ TotalCount(total_pii_found) = TotalFound(scanned)
  /\ Responded =>
       /\ Len(Grid(input)) >= 1
       /\ Len(deidentified_lines) >= 1
       /\ Len(Grid(response.deidentified_csv)) >= 1
       /\ deidentified_lines[1] = Grid(input)[1]
       /\ Grid(response.deidentified_csv)[1] = Grid(input)[1]

\* a completed run whose header has a non-blank cell and in which a data
\* cell was masked
HeaderPassthroughWitness ==
  /\ Responded
  /\ \E c \in 1..Len(rows[1]) : ~OnlyWhitespace(rows[1][c])
  /\ \E k \in 1..Len(scanned) : scanned[k].found > 0

----------------------------------------------------------------------------
(* C3 *)

\* C3: Blank-cell passthrough.  Every scan is of a non-blank data cell and
\* hands the analyzer the cell's text as the reader produced it; when the
\* run completes, a blank data cell has no scan and is in the output grid
\* at its place with its text, and every non-blank data cell has a scan.
\* The counts come from the scans only.
BlankCellPassthrough ==
  /\ \A k \in 1..Len(scanned) :
       /\ ~OnlyWhitespace(scanned[k].text)
       /\ scanned[k].row \in 2..Len(Grid(input))
       /\ scanned[k].col \in 1..Len(Grid(input)[scanned[k].row])
       /\ scanned[k].text = Grid(input)[scanned[k].row][scanned[k].col]
  /\ TotalCount(total_pii_found) = TotalFound(scanned)
  /\ Responded =>
       \A r \in 2..Len(Grid(input)) : \A c \in 1..Len(Grid(input)[r]) :
         LET cell == Grid(input)[r][c]
             scans == {k \in 1..Len(scanned) : scanned[k].row = r /\ scanned[k].col = c}
         IN  IF OnlyWhitespace(cell)
               THEN scans = {} /\ deidentified_lines[r][c] = cell
               ELSE Cardinality(scans) = 1

\* a completed run with a data cell of whitespace only and a scanned cell
BlankCellPassthroughWitness ==
  /\ Responded
  /\ \E r \in 2..Len(rows) : \E c \in 1..Len(rows[r]) :
       OnlyWhitespace(rows[r][c]) /\ rows[r][c] # <<>>
  /\ \E k \in 1..Len(scanned) : scanned[k].found > 0

----------------------------------------------------------------------------
(* C4 *)

\* the counts add up to the entities the analyzer returned, scan by scan
CountsMatchScans ==
  /\ TotalCount(total_pii_found) = TotalFound(scanned)
  /\ \A key \in EntityTypes : CountOf(total_pii_found, key) <= TotalFound(scanned)

\* C4 as stated: the counts rise by N for a scan that returned N entities,
\* and the output cell differs from the input cell exactly when N > 0.
CountMaskConsistencyAsStated ==
  /\ CountsMatchScans
  /\ \A k \in 1..Len(scanned) :
       (OutCell(scanned[k]) # scanned[k].text) <=> (scanned[k].found > 0)

\* C4, amended: the counts rise by N for a scan that returned N entities;
\* with N = 0 the anonymizer is not called and the output cell is the input
\* cell; with N > 0 the output cell is the text the anonymizer returned (so
\* the output cell differs from the input cell only if N > 0).
CountMaskConsistency ==
  /\ CountsMatchScans
  /\ \A k \in 1..Len(scanned) :
       /\ scanned[k].found = 0 =>
            /\ OutCell(scanned[k]) = scanned[k].text
            /\ scanned[k].anonymized = <<"not called">>
       /\ scanned[k].found > 0 => OutCell(scanned[k]) = scanned[k].anonymized
       /\ OutCell(scanned[k]) # scanned[k].text => scanned[k].found > 0

\* a cell whose detected span already read new_value has been counted and
\* came out as it went in
CountMaskConsistencyWitness ==
  \E k \in 1..Len(scanned) :
    /\ scanned[k].found > 0
    /\ OutCell(scanned[k]) = scanned[k].text
    /\ TotalCount(total_pii_found) = scanned[k].found

----------------------------------------------------------------------------
(* C5 *)

\* C5: All-or-nothing.  When the analyzer or the anonymizer raises, the
\* call has failed at that cell, which is the first non-blank data cell in
\* row-major order that has no completed scan; the response is an error
\* and carries neither CSV text nor report.  A response with output exists
\* only when every non-blank data cell of the input has been scanned.
AllOrNothing ==
  /\ failure.stage \in {"analyze", "anonymize"} =>
       /\ pc = "failed"
       /\ response.status = "500"
       /\ DOMAIN response = {"status", "error"}
       /\ IsPrefix(ScannedPlaces, NonBlankPlaces(rows))
       /\ Len(NonBlankPlaces(rows)) > Len(scanned)
       /\ NonBlankPlaces(rows)[Len(scanned) + 1] = <<failure.row, failure.col>>
  /\ pc = "failed" => response.status = "500" /\ DOMAIN response = {"status", "error"}
  /\ response.status = "200" =>
       /\ pc = "done"
       /\ failure = NoFailure
       /\ ScannedPlaces = NonBlankPlaces(Grid(input))
  /\ pc \in {"rows", "cells"} => response = NoResponse

\* the anonymizer raised on the second non-blank cell, after a first cell
\* was masked
AllOrNothingWitness ==
  /\ pc = "failed"
  /\ failure.stage = "anonymize"
  /\ \E k \in 1..Len(scanned) : scanned[k].found > 0

----------------------------------------------------------------------------
(* C6 *)

\* C6: Malformed input.  A call on the empty text fails at the header with
\* StopIteration, answered by an error response without CSV text or report;
\* and the empty text is never answered with output.
MalformedInput ==
  /\ (pc # "idle" /\ input = <<>>) =>
       /\ pc = "failed"
       /\ failure.stage = "header"
       /\ response = ErrorResponse("StopIteration")
       /\ DOMAIN response = {"status", "error"}
  /\ response.status = "200" => input # <<>> /\ Len(Grid(input)) >= 1

\* the empty text was uploaded
MalformedInputWitness ==
  /\ pc = "failed"
  /\ input = <<>>
  /\ response.status = "500"

----------------------------------------------------------------------------
(* C7 *)

Label(key) == Title(ReplaceUnderscore(key))

\* the line that shows a count for a key
LineOf(key, count) ==
  <<"T","o","t","a","l"," ">> \o Label(key) \o <<" ","f","o","u","n","d",":"," ">> \o Decimal(count)

\* the lines of a report after its two header lines
TypeLines(report) == Drop(report, 3)

\* C7: Report completeness.  The report starts with the two header lines.
\* With an empty count map it has one more line, the no-PII line.
\* Otherwise it has one line per key of the map and no other: the labels
\* on the lines are the labels of the keys, each line shows the count of
\* its key, which is positive, and no line is the no-PII line.
ReportCompleteness ==
  Responded =>
    LET report == response.report
        lines == TypeLines(report)
    IN  /\ SubSeq(report, 1, 2) = HeaderLines
        /\ IF total_pii_found = <<>>
             THEN lines = <<NoPIILine>>
             ELSE /\ Len(lines) = Cardinality(Keys(total_pii_found))
                  /\ {lines[k] : k \in 1..Len(lines)}
                       = {LineOf(key, CountOf(total_pii_found, key)) :
                            key \in Keys(total_pii_found)}
                  /\ \A k \in 1..Len(lines) : lines[k] # NoPIILine
                  /\ \A key \in Keys(total_pii_found) : CountOf(total_pii_found, key) >= 1

\* a report over two entity types
ReportCompletenessWitness ==
  /\ Responded
  /\ Len(total_pii_found) = 2
  /\ Len(response.report) = 4

----------------------------------------------------------------------------
(* C8 *)

NoPIIReport == HeaderLines \o <<NoPIILine>>

\* C8: No-PII idempotence.  When the CSV text of a completed run is
\* uploaded again and the analyzer finds nothing in its data cells, the
\* call returns that text unchanged, with an empty count map and the
\* no-PII report.
NoPIIIdempotence ==
  (Responded /\ resubmitted /\ \A k \in 1..Len(scanned) : scanned[k].found = 0) =>
    /\ response.deidentified_csv = input
    /\ total_pii_found = <<>>
    /\ response.report = NoPIIReport

\* the second run scanned a masked cell and found nothing in it
NoPIIIdempotenceWitness ==
  /\ Responded
  /\ resubmitted
  /\ \A k \in 1..Len(scanned) : scanned[k].found = 0
  /\ \E k \in 1..Len(scanned) : scanned[k].text = new_value
  /\ response.deidentified_csv = input

----------------------------------------------------------------------------
(* C9 *)

EmailLabel == <<"E","m","a","i","l"," ","A","d","d","r","e","s","s">>
SsnLabel == <<"U","s"," ","S","s","n">>

\* C9 as stated: each line after the header is the label followed by
\* ": <count> found".
ReportLineFormatAsStated ==
  (Responded /\ total_pii_found # <<>>) =>
    /\ SubSeq(response.report, 1, 2) = HeaderLines
    /\ \A k \in 1..Len(total_pii_found) :
         TypeLines(response.report)[k]
           = Label(total_pii_found[k][1]) \o <<":", " ">>
               \o Decimal(total_pii_found[k][2]) \o <<" ","f","o","u","n","d">>

\* C9, amended: after the two header lines, "Summary Report" and a
\* separator, the line of each entity type is "Total ", then the label (the
\* type with underscores replaced by spaces and each word capitalized),
\* then " found: " and the count; the lines follow the order in which the
\* types were first found.
ReportLineFormat ==
  (Responded /\ total_pii_found # <<>>) =>
    /\ response.report[1] = <<"S","u","m","m","a","r","y"," ","R","e","p","o","r","t">>
    /\ response.report[2] = [k \in 1..14 |-> "-"]
    /\ Len(response.report) = 2 + Len(total_pii_found)
    /\ \A k \in 1..Len(total_pii_found) :
         LET key == total_pii_found[k][1]
             label == IF key = <<"U","S","_","S","S","N">> THEN SsnLabel ELSE EmailLabel
             count == total_pii_found[k][2]
             digit == <<"1","2","3","4","5","6","7","8","9">>
         IN  /\ count \in 1..9
             /\ response.report[2 + k]
                  = <<"T","o","t","a","l"," ">> \o label
                      \o <<" ","f","o","u","n","d",":"," ">> \o <<digit[count]>>

\* a report with the line of a type that was found twice
ReportLineFormatWitness ==
  /\ Responded
  /\ \E k \in 1..Len(total_pii_found) :
       /\ total_pii_found[k][2] = 2
       /\ response.report[2 + k][Len(response.report[2 + k])] = "2"

----------------------------------------------------------------------------
(* C10 *)

\* a step that starts a run
RunStarts == pc \in {"idle", "done"} /\ pc' \in {"rows", "failed"}

CountMapInvariant ==
  /\ \A k \in 1..Len(total_pii_found) : total_pii_found[k][2] >= 1
  /\ Cardinality(Keys(total_pii_found)) = Len(total_pii_found)
  /\ TotalCount(total_pii_found) = TotalFound(scanned)
  /\ IsPrefix(ScannedPlaces, NonBlankPlaces(rows))
  /\ pc = "idle" => total_pii_found = <<>>

CountMapStep ==
  /\ RunStarts => total_pii_found' = <<>> /\ scanned' = <<>>
  /\ (~RunStarts /\ pc' # "idle") =>
       \A key \in EntityTypes :
         CountOf(total_pii_found', key) >= CountOf(total_pii_found, key)

\* C10: Count map lifecycle.  Every run starts with an empty map, whatever
\* the run before it counted; during the run every key present has a count
\* of at least 1, no count decreases, and the counts add up to the entities
\* returned for the cells scanned so far, which are the first non-blank
\* data cells in row-major order.
CountMapLifecycle == [](CountMapInvariant) /\ [][CountMapStep]_vars

\* a run started on the output of a run that had counted entities, and has
\* itself counted one
CountMapLifecycleWitness ==
  /\ resubmitted
  /\ pc = "cells"
  /\ TotalCount(total_pii_found) = 1
  /\ Len(scanned) >= 2

====
